---- MODULE Spec2Model ----
(***************************************************************************)
(* Model of the terminal rendering compositor of festivus/textivus:        *)
(* src/ui/compositor.go (Compositor, text measurement helpers),            *)
(* src/ui/column.go (Column, ColumnRenderer, RenderState), the line-number *)
(* gutter and the braille minimap (src/unnamed/part_001, part_000), and    *)
(* the clipboard (src/clipboard/clipboard.go).                             *)
(*                                                                         *)
(* Strings are sequences of runes.  A rune is named by a TLA+ string:      *)
(* "ESC" is '\033', "NL" is '\n', "CJK" is a double-width glyph such as    *)
(* U+65E5, "COMB" is a zero-width combining mark such as U+0301; every     *)
(* other name is the one-cell ASCII character it spells.                    *)
(***************************************************************************)
EXTENDS Integers, Sequences, FiniteSets, TLC

VARIABLES
    tin,      \* text functions: the string argument
    twidth,   \* text functions: the width argument
    tfn,      \* text functions: name of the function last applied to (tin, twidth)
    tout,     \* text functions: its result, [str |-> string, num |-> int]
    columns,  \* Compositor.columns
    width,    \* Compositor.width
    height,   \* Compositor.height
    frame,    \* outcome of the latest Compositor.Render since the last mutator
    calls,    \* renderer invocations made by that Render, one slot per column
    rstate,   \* the RenderState handed to the gutter and minimap renderers
    area,     \* [width, height] the layout allots to the minimap column
    mmEnabled, \* MinimapRenderer.enabled
    ret,      \* outcome of the latest gutter / minimap call
    clip,     \* the Clipboard: [internal, isSSH, tool]
    sysclip,  \* the system clipboard the native tools read and write
    cret      \* outcome of the latest Clipboard call

vars == <<tin, twidth, tfn, tout, columns, width, height, frame, calls,
          rstate, area, mmEnabled, ret, clip, sysclip, cret>>
textVars == <<tin, twidth, tfn, tout>>
compVars == <<columns, width, height, frame, calls>>
uiVars == <<rstate, area, mmEnabled, ret>>
clipVars == <<clip, sysclip, cret>>

----------------------------------------------------------------------------
(* Bounds *)

MaxLen == 4        \* longest string handed to the text functions
MaxTextWidth == 3  \* largest width handed to padToWidth / truncateToWidth
MaxCols == 2       \* most columns of a compositor that renders
MaxLayoutCols == 3 \* most columns of a compositor that only resolves widths
MaxWidth == 3      \* largest compositor width
MaxHeight == 2     \* largest compositor height
MaxFixed == 2      \* largest declared width of a fixed column

----------------------------------------------------------------------------
(* Runes *)

ESC == "ESC"
NL == "NL"
SP == " "

\* ASCII letters that occur in the model: the terminators of escape sequences.
Letters == {"L", "T", "S", "X", "m"}

\* (r >= 'a' && r <= 'z') || (r >= 'A' && r <= 'Z')
IsLetter(r) == r \in Letters

\* runewidth.RuneWidth: control characters and combining marks take no cell,
\* East-Asian wide glyphs take two, everything else one.
RuneWidth(r) ==
    IF r \in {ESC, NL, "TAB", "COMB"} THEN 0
    ELSE IF r = "CJK" THEN 2
    ELSE 1

\* runewidth.StringWidth: the sum of the widths of the runes.
RECURSIVE StringWidth(_)
StringWidth(s) ==
    IF s = <<>> THEN 0 ELSE RuneWidth(Head(s)) + StringWidth(Tail(s))

\* strings.Repeat(r, n) for n >= 0 (a negative count panics; callers that can
\* pass one test for it first).
RECURSIVE Repeat(_, _)
Repeat(r, n) == IF n <= 0 THEN <<>> ELSE <<r>> \o Repeat(r, n - 1)

----------------------------------------------------------------------------
(* Text measurement: src/ui/compositor.go:158-232 *)

\* The loop of stripANSI from rune i on, with the loop's inEscape flag.
RECURSIVE stripLoop(_, _, _)
stripLoop(s, i, inEscape) ==
    IF i > Len(s) THEN <<>>
    ELSE IF s[i] = ESC THEN stripLoop(s, i + 1, TRUE)
    ELSE IF inEscape THEN stripLoop(s, i + 1, ~IsLetter(s[i]))
    ELSE <<s[i]>> \o stripLoop(s, i + 1, FALSE)

\* A stripANSI that forgets the `continue` after the terminating letter: the
\* letter that ends the sequence is written to the result.
RECURSIVE stripLoopKeepsLetter(_, _, _)
stripLoopKeepsLetter(s, i, inEscape) ==
    IF i > Len(s) THEN <<>>
    ELSE IF s[i] = ESC THEN stripLoopKeepsLetter(s, i + 1, TRUE)
    ELSE IF inEscape /\ ~IsLetter(s[i]) THEN stripLoopKeepsLetter(s, i + 1, TRUE)
    ELSE <<s[i]>> \o stripLoopKeepsLetter(s, i + 1, FALSE)

stripANSI_KeepsLetter(s) == stripLoopKeepsLetter(s, 1, FALSE)

\* A stripANSI that recognises only sequences introduced by ESC '[' and
\* writes any other ESC to the result.
RECURSIVE stripLoopCSI(_, _, _)
stripLoopCSI(s, i, inEscape) ==
    IF i > Len(s) THEN <<>>
    ELSE IF inEscape THEN stripLoopCSI(s, i + 1, ~IsLetter(s[i]))
    ELSE IF s[i] = ESC /\ i < Len(s) /\ s[i + 1] = "["
         THEN stripLoopCSI(s, i + 1, TRUE)
    ELSE <<s[i]>> \o stripLoopCSI(s, i + 1, FALSE)

stripANSI_CSIOnly(s) == stripLoopCSI(s, 1, FALSE)

stripANSI(s) == stripLoop(s, 1, FALSE)

visualWidth(s) == StringWidth(stripANSI(s))

\* The loop of truncateToWidth from rune i on; returns the builder's content
\* and visualPos when the loop ends (by exhaustion or by break).
RECURSIVE truncLoop(_, _, _, _, _, _)
truncLoop(s, w, i, inEscape, visualPos, result) ==
    IF i > Len(s) THEN [result |-> result, visualPos |-> visualPos]
    ELSE IF s[i] = ESC
         THEN truncLoop(s, w, i + 1, TRUE, visualPos, Append(result, s[i]))
    ELSE IF inEscape
         THEN truncLoop(s, w, i + 1, ~IsLetter(s[i]), visualPos, Append(result, s[i]))
    ELSE IF visualPos + RuneWidth(s[i]) > w
         THEN [result |-> result, visualPos |-> visualPos]
    ELSE truncLoop(s, w, i + 1, FALSE, visualPos + RuneWidth(s[i]), Append(result, s[i]))

truncateToWidth(s, w) ==
    LET l == truncLoop(s, w, 1, FALSE, 0, <<>>)
    IN  IF l.visualPos < w
        THEN l.result \o Repeat(SP, w - l.visualPos)
        ELSE l.result

padToWidth(s, w) ==
    LET vw == visualWidth(s)
    IN  IF vw = w THEN s
        ELSE IF vw > w THEN truncateToWidth(s, w)
        ELSE s \o Repeat(SP, w - vw)

----------------------------------------------------------------------------
(* Inputs of the text functions *)

TextRunes == {ESC, "[", "m", SP, "CJK", "COMB"}

RECURSIVE StringsUpTo(_)
StringsUpTo(n) ==
    IF n = 0 THEN {<<>>}
    ELSE LET shorter == StringsUpTo(n - 1)
         IN  shorter \cup {Append(t, r) : t \in {u \in shorter : Len(u) = n - 1}, r \in TextRunes}

TextInputs == StringsUpTo(MaxLen)
TextWidths == 0..MaxTextWidth

NoResult == [str |-> <<>>, num |-> 0]

----------------------------------------------------------------------------
(* Columns and renderers: src/ui/column.go *)

Column(w, f, e, r) == [Width |-> w, Flexible |-> f, Enabled |-> e, Renderer |-> r]

\* Implementations of ColumnRenderer.  "nil" is the nil interface value.
\* mockL, mockT, mockS and mockColorX are the renderers of the package's
\* tests.
\* noRows, oneRow and extraRow break the row-count contract: they return
\* no row, one row, and height+1 rows.  openEsc returns height rows of width
\* cells, each followed by an escape sequence it never terminates.
MockRenderers == {"mockL", "mockT", "mockS"}
StubRenderers == {"noRows", "oneRow", "extraRow", "openEsc"}
Renderers == {"nil", "mockColorX"} \cup MockRenderers \cup StubRenderers

mockChar(r) == IF r = "mockL" THEN "L" ELSE IF r = "mockT" THEN "T" ELSE "S"

\* The *RenderState handed to Render: nil or a pointer to a state.
RenderStates == {"nil", "state"}

Rows(n, row) == [i \in 1..n |-> row]

\* ColumnRenderer.Render(width, height, state) of renderer r.  The mocks call
\* strings.Repeat(char, width), which panics on a negative count.
RendererRender(r, w, h, st) ==
    IF r \in MockRenderers THEN
        IF w < 0 THEN [panic |-> TRUE, rows |-> <<>>]
        ELSE [panic |-> FALSE, rows |-> Rows(h, Repeat(mockChar(r), w))]
    ELSE IF r = "mockColorX" THEN
        IF w < 0 THEN [panic |-> TRUE, rows |-> <<>>]
        ELSE [panic |-> FALSE,
              rows |-> Rows(h, <<ESC, "[", "3", "1", "m">> \o Repeat("X", w)
                                \o <<ESC, "[", "0", "m">>)]
    ELSE IF r = "noRows" THEN [panic |-> FALSE, rows |-> <<>>]
    ELSE IF r = "oneRow" THEN [panic |-> FALSE, rows |-> Rows(1, Repeat("S", w))]
    ELSE IF r = "openEsc"
         THEN [panic |-> FALSE, rows |-> Rows(h, Repeat("S", w) \o <<ESC, "[">>)]
    ELSE [panic |-> FALSE, rows |-> Rows(h + 1, Repeat("S", w))]

----------------------------------------------------------------------------
(* Compositor: src/ui/compositor.go:9-156 *)

\* usedWidth after the first pass of calculateColumnWidths over cols[1..n].
RECURSIVE usedWidth(_, _)
usedWidth(cols, n) ==
    IF n = 0 THEN 0
    ELSE usedWidth(cols, n - 1)
         + (IF cols[n].Enabled /\ ~cols[n].Flexible THEN cols[n].Width ELSE 0)

\* A first pass that would keep the first enabled flexible column instead of
\* the last.
flexibleIdx_First(cols) ==
    LET flex == {i \in 1..Len(cols) : cols[i].Enabled /\ cols[i].Flexible}
    IN  IF flex = {} THEN 0 ELSE CHOOSE i \in flex : \A j \in flex : i <= j

\* flexibleIdx after the first pass (1-based; 0 stands for the code's -1).
flexibleIdx(cols) ==
    LET flex == {i \in 1..Len(cols) : cols[i].Enabled /\ cols[i].Flexible}
    IN  IF flex = {} THEN 0 ELSE CHOOSE i \in flex : \A j \in flex : j <= i

\* A first pass that forgets the `continue` of a disabled column: its declared
\* width is still charged to usedWidth.
RECURSIVE usedWidthAll(_, _)
usedWidthAll(cols, n) ==
    IF n = 0 THEN 0
    ELSE usedWidthAll(cols, n - 1) + (IF ~cols[n].Flexible THEN cols[n].Width ELSE 0)

calculateColumnWidths_ChargesDisabled(cols, w) ==
    LET remaining == w - usedWidthAll(cols, Len(cols))
    IN  [i \in 1..Len(cols) |->
            IF ~cols[i].Enabled THEN 0
            ELSE IF cols[i].Flexible
                 THEN (IF i = flexibleIdx(cols)
                       THEN (IF remaining < 1 THEN 1 ELSE remaining) ELSE 0)
            ELSE cols[i].Width]

\* A second pass without the floor of 1.
calculateColumnWidths_NoFloor(cols, w) ==
    LET remaining == w - usedWidth(cols, Len(cols))
    IN  [i \in 1..Len(cols) |->
            IF ~cols[i].Enabled THEN 0
            ELSE IF cols[i].Flexible
                 THEN (IF i = flexibleIdx(cols) THEN remaining ELSE 0)
            ELSE cols[i].Width]

calculateColumnWidths(cols, w) ==
    LET remaining == w - usedWidth(cols, Len(cols))
    IN  [i \in 1..Len(cols) |->
            IF ~cols[i].Enabled THEN 0
            ELSE IF cols[i].Flexible
                 THEN (IF i = flexibleIdx(cols)
                       THEN (IF remaining < 1 THEN 1 ELSE remaining) ELSE 0)
            ELSE cols[i].Width]

FlexibleColumnWidth(cols, w) ==
    LET widths == calculateColumnWidths(cols, w)
        flex == {i \in 1..Len(cols) : cols[i].Enabled /\ cols[i].Flexible}
    IN  IF flex = {} THEN w
        ELSE widths[CHOOSE i \in flex : \A j \in flex : i <= j]

NoCall == [called |-> FALSE, rpanic |-> FALSE, panic |-> FALSE, width |-> 0, height |-> 0,
           state |-> "nil", raw |-> <<>>, out |-> <<>>]

\* A loop body that takes the comment of line 132 at its word and pads with
\* empty rows.
renderColumn_PadsEmpty(col, wi, h, st) ==
    IF ~col.Enabled \/ wi = 0 \/ col.Renderer = "nil"
    THEN [NoCall EXCEPT !.out = Rows(h, <<>>)]
    ELSE LET r == RendererRender(col.Renderer, wi, h, st)
             n == Len(r.rows)
         IN  [called |-> TRUE, rpanic |-> r.panic, panic |-> r.panic,
              width |-> wi, height |-> h, state |-> st, raw |-> r.rows,
              out |-> IF r.panic THEN <<>>
                      ELSE [j \in 1..h |-> IF j <= n THEN r.rows[j] ELSE <<>>]]

\* A loop body that also invokes the renderer of a disabled column.
renderColumn_RendersDisabled(col, wi, h, st) ==
    IF col.Renderer = "nil"
    THEN [NoCall EXCEPT !.out = Rows(h, <<>>)]
    ELSE LET r == RendererRender(col.Renderer, wi, h, st)
             n == Len(r.rows)
             bad == r.panic \/ (n < h /\ wi < 0)
         IN  [called |-> TRUE, rpanic |-> r.panic, panic |-> bad,
              width |-> wi, height |-> h, state |-> st, raw |-> r.rows,
              out |-> IF bad THEN <<>>
                      ELSE [j \in 1..h |-> IF j <= n THEN r.rows[j] ELSE Repeat(SP, wi)]]

\* One iteration of the loop of Render, lines 120-139, for a column with
\* resolved width wi: the renderer's rows (raw) and columnOutputs[i] (out).
\* rpanic: the renderer panicked; panic: the iteration panicked, which it
\* also does in strings.Repeat(" ", widths[i]) when rows are missing and
\* wi < 0.
renderColumn(col, wi, h, st) ==
    IF ~col.Enabled \/ wi = 0 \/ col.Renderer = "nil"
    THEN [NoCall EXCEPT !.out = Rows(h, <<>>)]
    ELSE LET r == RendererRender(col.Renderer, wi, h, st)
             n == Len(r.rows)
             bad == r.panic \/ (n < h /\ wi < 0)
         IN  [called |-> TRUE, rpanic |-> r.panic, panic |-> bad,
              width |-> wi, height |-> h, state |-> st, raw |-> r.rows,
              out |-> IF bad THEN <<>>
                      ELSE [j \in 1..h |-> IF j <= n THEN r.rows[j] ELSE Repeat(SP, wi)]]

\* The loop of lines 120-139 over cols[1..n]; a panic ends it, and the
\* columns after it are never reached.
RECURSIVE columnLoop(_, _, _, _, _)
columnLoop(cols, widths, h, st, n) ==
    IF n = 0 THEN <<>>
    ELSE LET before == columnLoop(cols, widths, h, st, n - 1)
         IN  IF \E i \in 1..(n - 1) : before[i].panic
             THEN Append(before, NoCall)
             ELSE Append(before, renderColumn(cols[n], widths[n], h, st))

\* An inner loop that writes the columns last to first.
RECURSIVE joinRow_Reversed(_, _, _, _, _)
joinRow_Reversed(cols, widths, outs, row, i) ==
    IF i > Len(cols) THEN <<>>
    ELSE joinRow_Reversed(cols, widths, outs, row, i + 1)
         \o (IF ~cols[i].Enabled \/ widths[i] = 0 THEN <<>> ELSE outs[i][row])

\* The inner loop of lines 147-152: row `row` of every column from i on.
RECURSIVE joinRow(_, _, _, _, _)
joinRow(cols, widths, outs, row, i) ==
    IF i > Len(cols) THEN <<>>
    ELSE (IF ~cols[i].Enabled \/ widths[i] = 0 THEN <<>> ELSE outs[i][row])
         \o joinRow(cols, widths, outs, row, i + 1)

\* The outer loop of lines 143-153 from row `row` on.
RECURSIVE joinRows(_, _, _, _, _)
joinRows(cols, widths, outs, h, row) ==
    IF row > h THEN <<>>
    ELSE (IF row > 1 THEN <<NL>> ELSE <<>>)
         \o joinRow(cols, widths, outs, row, 1)
         \o joinRows(cols, widths, outs, h, row + 1)

\* Compositor.Render: whether it panicked, the string it returned, and the
\* renderer invocations it made.
Render(cols, w, h, st) ==
    IF Len(cols) = 0 \/ h <= 0
    THEN [panicked |-> FALSE, frame |-> <<>>, calls |-> [i \in 1..Len(cols) |-> NoCall]]
    ELSE LET widths == calculateColumnWidths(cols, w)
             outs == columnLoop(cols, widths, h, st, Len(cols))
         IN  IF \E i \in 1..Len(cols) : outs[i].panic
             THEN [panicked |-> TRUE, frame |-> <<>>, calls |-> outs]
             ELSE [panicked |-> FALSE,
                   frame |-> joinRows(cols, widths, [i \in 1..Len(cols) |-> outs[i].out], h, 1),
                   calls |-> outs]

----------------------------------------------------------------------------
(* Inputs of the compositor *)

Widths == 0..MaxWidth
Heights == 0..MaxHeight
FixedWidths == -1..MaxFixed

\* Height of the compositor of TestCalculateColumnWidths.
LayoutHeight == 10

\* Columns of the layout runs: fixed columns of every declared width and
\* flexible columns, enabled or not.  Their renderers are never invoked.
LayoutColumns ==
    {Column(w, FALSE, e, "mockL") : w \in FixedWidths, e \in BOOLEAN}
    \cup {Column(0, TRUE, e, "mockT") : e \in BOOLEAN}

\* Column lists handed to SetColumns in the layout runs: none, and the layout
\* of TestCalculateColumnWidths cut to MaxLayoutCols columns.
LayoutColumnLists ==
    {<<>>,
     SubSeq(<<Column(1, FALSE, TRUE, "mockL"), Column(0, TRUE, TRUE, "mockT"),
              Column(2, FALSE, TRUE, "mockL"), Column(1, FALSE, TRUE, "mockL")>>,
            1, IF MaxLayoutCols < 4 THEN MaxLayoutCols ELSE 4)}

\* Columns of the rendering runs: a gutter-like fixed column, a zero-width
\* column, the flexible text column, and a column for each other renderer;
\* noRows sits in a column of negative declared width.
RenderColumns ==
    {Column(1, FALSE, e, "mockL") : e \in BOOLEAN}
    \cup {Column(0, TRUE, e, "mockT") : e \in BOOLEAN}
    \cup {Column(0, FALSE, TRUE, "mockL")}
    \cup {Column(1, FALSE, TRUE, r) : r \in {"nil", "mockColorX", "oneRow", "extraRow", "openEsc"}}
    \cup {Column(-1, FALSE, TRUE, "noRows")}

\* Column lists handed to SetColumns in the rendering runs: none, the layout
\* of TestCompositorWithANSI and the layout of TestCompositorBasic.
RenderColumnLists ==
    {<<>>,
     <<Column(1, FALSE, TRUE, "mockColorX"), Column(1, FALSE, TRUE, "mockL")>>,
     <<Column(1, FALSE, TRUE, "mockL"), Column(0, TRUE, TRUE, "mockT"),
       Column(1, FALSE, TRUE, "mockS")>>}

NoRet == [op |-> "none", panicked |-> FALSE, frame |-> <<>>, widths |-> <<>>,
          flex |-> 0, state |-> "nil"]

----------------------------------------------------------------------------
(* The renderers and the clipboard before anything has used them *)

\* &RenderState{}: every field at its zero value.  Only the fields the
\* gutter and the minimap read are kept.
ZeroState ==
    [Lines |-> <<>>, CursorLine |-> 0, ScrollY |-> 0, WordWrap |-> FALSE,
     TotalLines |-> 0, TotalVisualLines |-> 0]

\* LinesPerRow is the quotient num / den of two integers.
NoMetrics == [LinesPerRow |-> [num |-> 1, den |-> 1], TotalLines |-> 0, Height |-> 0]

NoUICall ==
    [op |-> "none", nilState |-> FALSE, width |-> 0, height |-> 0, row |-> 0,
     panicked |-> FALSE, rows |-> <<>>, metrics |-> NoMetrics, line |-> 0]

NoClipCall == [op |-> "none", text |-> <<>>, err |-> FALSE, has |-> FALSE]

\* NewMinimapRenderer: disabled; no call made yet.
UIIdle ==
    /\ rstate = ZeroState
    /\ area = [width |-> 0, height |-> 0]
    /\ mmEnabled = FALSE
    /\ ret = NoUICall

\* clipboard.New where no session and no tool is detected; no call made yet.
ClipboardIdle ==
    /\ clip = [internal |-> <<>>, isSSH |-> FALSE, tool |-> "ToolNone"]
    /\ sysclip = <<>>
    /\ cret = NoClipCall

----------------------------------------------------------------------------
(* Text functions as a state machine *)

InitText ==
    /\ tin \in TextInputs
    /\ twidth \in TextWidths
    /\ tfn = "none"
    /\ tout = NoResult
    /\ columns = <<>>
    /\ width = 0
    /\ height = 0
    /\ frame = NoRet
    /\ calls = <<>>
    /\ UIIdle
    /\ ClipboardIdle

CallVisualWidth ==
    /\ tfn' = "visualWidth"
    /\ tout' = [str |-> <<>>, num |-> visualWidth(tin)]
    /\ UNCHANGED <<tin, twidth, compVars, uiVars, clipVars>>

CallStripANSI ==
    /\ tfn' = "stripANSI"
    /\ tout' = [str |-> stripANSI(tin), num |-> 0]
    /\ UNCHANGED <<tin, twidth, compVars, uiVars, clipVars>>

CallPadToWidth ==
    /\ tfn' = "padToWidth"
    /\ tout' = [str |-> padToWidth(tin, twidth), num |-> 0]
    /\ UNCHANGED <<tin, twidth, compVars, uiVars, clipVars>>

CallTruncateToWidth ==
    /\ tfn' = "truncateToWidth"
    /\ tout' = [str |-> truncateToWidth(tin, twidth), num |-> 0]
    /\ UNCHANGED <<tin, twidth, compVars, uiVars, clipVars>>

NextText ==
    \/ CallVisualWidth
    \/ CallStripANSI
    \/ CallPadToWidth
    \/ CallTruncateToWidth

SpecText == InitText /\ [][NextText]_vars

----------------------------------------------------------------------------
(* The compositor as a state machine *)

\* NewCompositor(width, height)
Init ==
    /\ tin = <<>>
    /\ twidth = 0
    /\ tfn = "none"
    /\ tout = NoResult
    /\ columns = <<>>
    /\ width \in Widths
    /\ height \in Heights
    /\ frame = NoRet
    /\ calls = <<>>
    /\ UIIdle
    /\ ClipboardIdle

SetSize ==
    \E w \in Widths, h \in Heights :
        /\ width' = w
        /\ height' = h
        /\ frame' = NoRet
        /\ calls' = <<>>
        /\ UNCHANGED <<columns, textVars, uiVars, clipVars>>

AddColumn ==
    \E col \in RenderColumns :
        /\ Len(columns) < MaxCols
        /\ columns' = Append(columns, col)
        /\ frame' = NoRet
        /\ calls' = <<>>
        /\ UNCHANGED <<width, height, textVars, uiVars, clipVars>>

SetColumns ==
    \E cols \in RenderColumnLists :
        /\ columns' = cols
        /\ frame' = NoRet
        /\ calls' = <<>>
        /\ UNCHANGED <<width, height, textVars, uiVars, clipVars>>

\* An index outside the slice leaves the columns alone.
EnableColumn ==
    \E index \in -1..Len(columns), enabled \in BOOLEAN :
        /\ columns' = IF index >= 0 /\ index < Len(columns)
                      THEN [columns EXCEPT ![index + 1].Enabled = enabled]
                      ELSE columns
        /\ frame' = NoRet
        /\ calls' = <<>>
        /\ UNCHANGED <<width, height, textVars, uiVars, clipVars>>

CallCalculateColumnWidths ==
    /\ frame' = [NoRet EXCEPT !.op = "calculateColumnWidths",
                              !.widths = calculateColumnWidths(columns, width)]
    /\ calls' = <<>>
    /\ UNCHANGED <<columns, width, height, textVars, uiVars, clipVars>>

CallFlexibleColumnWidth ==
    /\ frame' = [NoRet EXCEPT !.op = "FlexibleColumnWidth",
                              !.flex = FlexibleColumnWidth(columns, width)]
    /\ calls' = <<>>
    /\ UNCHANGED <<columns, width, height, textVars, uiVars, clipVars>>

\* A Render that would write the resolved widths back into the columns.
CallRender_StoresWidths ==
    \E st \in RenderStates :
        LET r == Render(columns, width, height, st)
            resolved == calculateColumnWidths(columns, width)
        IN  /\ frame' = [NoRet EXCEPT !.op = "Render", !.panicked = r.panicked,
                                      !.frame = r.frame, !.state = st]
            /\ calls' = r.calls
            /\ columns' = [i \in 1..Len(columns) |->
                               [columns[i] EXCEPT !.Width = resolved[i]]]
            /\ UNCHANGED <<width, height, textVars, uiVars, clipVars>>

CallRender ==
    \E st \in RenderStates :
        LET r == Render(columns, width, height, st)
        IN  /\ frame' = [NoRet EXCEPT !.op = "Render", !.panicked = r.panicked,
                                      !.frame = r.frame, !.state = st]
            /\ calls' = r.calls
            /\ UNCHANGED <<columns, width, height, textVars, uiVars, clipVars>>

Next ==
    \/ SetSize
    \/ AddColumn
    \/ SetColumns
    \/ EnableColumn
    \/ CallCalculateColumnWidths
    \/ CallFlexibleColumnWidth
    \/ CallRender

Spec == Init /\ [][Next]_vars

----------------------------------------------------------------------------
(* The compositor resolving widths only, over a wider range of layouts *)

\* NewCompositor(width, LayoutHeight)
InitLayout ==
    /\ tin = <<>>
    /\ twidth = 0
    /\ tfn = "none"
    /\ tout = NoResult
    /\ columns = <<>>
    /\ width \in Widths
    /\ height = LayoutHeight
    /\ frame = NoRet
    /\ calls = <<>>
    /\ UIIdle
    /\ ClipboardIdle

SetSizeLayout ==
    \E w \in Widths :
        /\ width' = w
        /\ height' = LayoutHeight
        /\ frame' = NoRet
        /\ calls' = <<>>
        /\ UNCHANGED <<columns, textVars, uiVars, clipVars>>

AddColumnLayout ==
    \E col \in LayoutColumns :
        /\ Len(columns) < MaxLayoutCols
        /\ columns' = Append(columns, col)
        /\ frame' = NoRet
        /\ calls' = <<>>
        /\ UNCHANGED <<width, height, textVars, uiVars, clipVars>>

SetColumnsLayout ==
    \E cols \in LayoutColumnLists :
        /\ columns' = cols
        /\ frame' = NoRet
        /\ calls' = <<>>
        /\ UNCHANGED <<width, height, textVars, uiVars, clipVars>>

NextLayout ==
    \/ SetSizeLayout
    \/ AddColumnLayout
    \/ SetColumnsLayout
    \/ EnableColumn
    \/ CallCalculateColumnWidths
    \/ CallFlexibleColumnWidth

SpecLayout == InitLayout /\ [][NextLayout]_vars

----------------------------------------------------------------------------
(* Vocabulary of the properties *)

Max(a, b) == IF a >= b THEN a ELSE b

RECURSIVE SumOf(_, _)
SumOf(f, S) ==
    IF S = {} THEN 0
    ELSE LET i == CHOOSE x \in S : TRUE IN f[i] + SumOf(f, S \ {i})

\* Rune i of s lies inside an escape sequence: an introducer at or before i
\* with no letter strictly between it and i.
InEscape(s, i) ==
    \E j \in 1..i : s[j] = ESC /\ \A k \in (j + 1)..(i - 1) : ~IsLetter(s[k])

\* s ends inside an escape sequence that no letter has terminated.
OpenAtEnd(s) ==
    \E j \in 1..Len(s) : s[j] = ESC /\ \A k \in (j + 1)..Len(s) : ~IsLetter(s[k])

\* Cells of a glyph: 2 for a double-width glyph, 0 for a zero-width one.
GlyphCells(r) == IF r = "CJK" THEN 2 ELSE IF r = "COMB" THEN 0 ELSE 1

\* The glyphs of s outside escape sequences, in order, from rune i on.
RECURSIVE VisibleFrom(_, _)
VisibleFrom(s, i) ==
    IF i > Len(s) THEN <<>>
    ELSE (IF InEscape(s, i) THEN <<>> ELSE <<s[i]>>) \o VisibleFrom(s, i + 1)

VisibleGlyphs(s) == VisibleFrom(s, 1)

CellsOf(g) == SumOf([i \in 1..Len(g) |-> GlyphCells(g[i])], 1..Len(g))

\* strings.Split(s, "\n")
RECURSIVE SplitLines(_)
SplitLines(s) ==
    IF \A i \in 1..Len(s) : s[i] # NL THEN <<s>>
    ELSE LET k == CHOOSE i \in 1..Len(s) : s[i] = NL /\ \A j \in 1..(i - 1) : s[j] # NL
         IN  <<SubSeq(s, 1, k - 1)>> \o SplitLines(SubSeq(s, k + 1, Len(s)))

FrameLines == SplitLines(frame.frame)

Disabled == {i \in 1..Len(columns) : ~columns[i].Enabled}
EnabledFixed == {i \in 1..Len(columns) : columns[i].Enabled /\ ~columns[i].Flexible}
EnabledFlexible == {i \in 1..Len(columns) : columns[i].Enabled /\ columns[i].Flexible}
FixedSum == SumOf([i \in 1..Len(columns) |-> columns[i].Width], EnabledFixed)

\* The enabled columns of nonzero resolved width.
Active ==
    LET resolved == calculateColumnWidths(columns, width)
    IN  {i \in 1..Len(columns) : columns[i].Enabled /\ resolved[i] # 0}

Rendered == frame.op = "Render" /\ Len(columns) >= 1 /\ height > 0

\* Every active column has a renderer, and the rows it returned have exactly
\* the allocated visual width and end outside any escape sequence.
RenderersHonourWidth ==
    \A i \in Active :
        /\ columns[i].Renderer # "nil"
        /\ calls[i].called /\ ~calls[i].rpanic
        /\ \A k \in 1..Len(calls[i].raw) :
               /\ visualWidth(calls[i].raw[k]) = calls[i].width
               /\ ~OpenAtEnd(calls[i].raw[k])

\* The resolved widths can add up to the compositor width: no enabled fixed
\* width is negative, and the fixed widths leave room for the flexible column
\* or, without one, fill the width themselves.
LayoutFits ==
    /\ \A i \in EnabledFixed : columns[i].Width >= 0
    /\ IF EnabledFlexible # {} THEN FixedSum < width ELSE FixedSum = width

LinesHaveWidth ==
    /\ ~frame.panicked
    /\ \A i \in 1..Len(FrameLines) : visualWidth(FrameLines[i]) = width

----------------------------------------------------------------------------
(* C1 *)

\* C1 as stated: after Render has returned a frame on a compositor with at
\* least one enabled column, height > 0, width > 0 and positive fixed widths
\* (renderers honouring the width contract), every line of the frame has visual width equal to the
\* compositor width.
C1_AsStated ==
    (/\ Rendered /\ width > 0 /\ ~frame.panicked
     /\ Active # {}
     /\ \A i \in EnabledFixed : columns[i].Width > 0
     /\ RenderersHonourWidth) => LinesHaveWidth

\* C1, amended: the same when, in addition, the layout fits the width: the
\* enabled fixed widths are non-negative and sum to less than the compositor
\* width beside an enabled flexible column, or to exactly the width without.
C1_LinesHaveCompositorWidth ==
    (Rendered /\ RenderersHonourWidth /\ LayoutFits) => LinesHaveWidth

C1_Witness ==
    /\ Rendered /\ RenderersHonourWidth /\ LayoutFits /\ ~frame.panicked
    /\ height >= 2 /\ width >= 2
    /\ \E i, j \in Active : columns[i].Renderer = "mockColorX" /\ columns[j].Flexible

----------------------------------------------------------------------------
(* C2 *)

\* C2: after Render, for every active column whose renderer returned n rows,
\* columnOutputs keeps the first min(n, height) of them and holds
\* resolvedWidth spaces in rows n..height-1; the frame has exactly height
\* lines and Render did not panic.
C2_RowCountRepaired ==
    (Rendered /\ \A i \in 1..Len(calls) : ~calls[i].rpanic) =>
        /\ ~frame.panicked
        /\ Len(FrameLines) = height
        /\ \A i \in Active :
               calls[i].called =>
                   /\ Len(calls[i].out) = height
                   /\ \A k \in 1..height :
                          calls[i].out[k] =
                              IF k <= Len(calls[i].raw) THEN calls[i].raw[k]
                              ELSE Repeat(SP, calls[i].width)

----------------------------------------------------------------------------
(* C3 *)

\* C3 as stated: when the enabled fixed widths (all positive) do not exceed
\* the compositor width (positive), the widths calculateColumnWidths
\* resolves for the enabled columns sum to the compositor width.
C3_AsStated ==
    (/\ frame.op = "calculateColumnWidths"
     /\ EnabledFixed # {} /\ width > 0
     /\ \A i \in EnabledFixed : columns[i].Width > 0
     /\ FixedSum <= width) =>
        SumOf(frame.widths, EnabledFixed \cup EnabledFlexible) = width

\* C3, amended: the sum is the compositor width when an enabled flexible
\* column is present and the enabled fixed widths sum to strictly less than
\* the compositor width.
C3_WidthsSumToWidth ==
    (frame.op = "calculateColumnWidths" /\ EnabledFlexible # {} /\ FixedSum < width) =>
        SumOf(frame.widths, EnabledFixed \cup EnabledFlexible) = width

C3_Witness ==
    /\ frame.op = "calculateColumnWidths" /\ EnabledFlexible # {} /\ FixedSum < width
    /\ \E i \in EnabledFixed : columns[i].Width > 0
    /\ \E i \in Disabled : columns[i].Width > 0

----------------------------------------------------------------------------
(* C4 *)

\* C4: for w > 0, padToWidth(s, w) has visual width w; it is s when s is w
\* wide already and s followed by spaces when s is narrower.
C4_PadToWidthExact ==
    (tfn = "padToWidth" /\ twidth > 0) =>
        /\ visualWidth(tout.str) = twidth
        /\ CellsOf(VisibleGlyphs(tin)) = twidth => tout.str = tin
        /\ CellsOf(VisibleGlyphs(tin)) < twidth =>
               tout.str = tin \o Repeat(SP, twidth - CellsOf(VisibleGlyphs(tin)))

----------------------------------------------------------------------------
(* C5 *)

\* The longest prefix of the glyphs g that fits in w cells.
FittingPrefix(g, w) ==
    LET fits == {k \in 0..Len(g) : CellsOf(SubSeq(g, 1, k)) <= w}
    IN  SubSeq(g, 1, CHOOSE k \in fits : \A m \in fits : m <= k)

\* C5: with escape sequences removed, truncateToWidth(s, w) is the longest
\* prefix of the visible glyphs of s that fits in w cells followed by the
\* spaces that bring it to w cells, and its visual width is w.
C5_TruncateWholeGlyphs ==
    tfn = "truncateToWidth" =>
        LET kept == FittingPrefix(VisibleGlyphs(tin), twidth)
        IN  /\ stripANSI(tout.str) = kept \o Repeat(SP, twidth - CellsOf(kept))
            /\ visualWidth(tout.str) = twidth

----------------------------------------------------------------------------
(* C6 *)

\* C6: stripANSI applied to its own output returns that output, and the
\* output holds no escape introducer.
C6_StripIdempotent ==
    tfn = "stripANSI" =>
        /\ stripANSI(tout.str) = tout.str
        /\ \A i \in 1..Len(tout.str) : tout.str[i] # ESC

C6_Witness ==
    /\ tfn = "stripANSI"
    /\ \E i \in 1..Len(tin) : tin[i] = ESC
    /\ tout.str # <<>>
    /\ Len(tout.str) < Len(tin) - 1

----------------------------------------------------------------------------
(* C7 *)

\* C7: visualWidth(s) is the sum of the cells of the glyphs of s outside
\* escape sequences, an escape sequence running from an introducer to the
\* first letter after it or to the end of s.
C7_VisualWidthCountsCells ==
    tfn = "visualWidth" => tout.num = CellsOf(VisibleGlyphs(tin))

C7_Witness ==
    /\ tfn = "visualWidth"
    /\ \E i, j, k \in 1..Len(tin) :
           /\ i < j /\ j < k
           /\ tin[i] = ESC /\ IsLetter(tin[j]) /\ tin[k] = "CJK"
    /\ tout.num = 2

----------------------------------------------------------------------------
(* C8 *)

\* C8: with exactly one enabled flexible column, calculateColumnWidths gives
\* every enabled fixed column its declared width and the flexible column
\* max(1, width - sum of the enabled fixed widths), and
\* FlexibleColumnWidth returns that value.
C8_FlexibleGetsRemainder ==
    Cardinality(EnabledFlexible) = 1 =>
        /\ frame.op = "calculateColumnWidths" =>
               /\ \A i \in EnabledFixed : frame.widths[i] = columns[i].Width
               /\ \A i \in EnabledFlexible : frame.widths[i] = Max(1, width - FixedSum)
        /\ frame.op = "FlexibleColumnWidth" => frame.flex = Max(1, width - FixedSum)

C8_Witness ==
    /\ frame.op = "FlexibleColumnWidth"
    /\ Cardinality(EnabledFlexible) = 1
    /\ Cardinality(EnabledFixed) >= 2
    /\ FixedSum > 0
    /\ frame.flex = width - FixedSum
    /\ frame.flex > 1

----------------------------------------------------------------------------
(* C9 *)

\* Row k of the frame as the enabled columns alone produce it.
RECURSIVE EnabledCells(_, _)
EnabledCells(k, i) ==
    IF i > Len(columns) THEN <<>>
    ELSE (IF columns[i].Enabled THEN calls[i].out[k] ELSE <<>>) \o EnabledCells(k, i + 1)

\* A disabled column resolves to width 0, is not rendered, and adds no cell
\* to any row of the frame.
DisabledContributesNothing ==
    /\ frame.op = "calculateColumnWidths" => \A i \in Disabled : frame.widths[i] = 0
    /\ frame.op = "Render" => \A i \in Disabled : ~calls[i].called
    /\ (Rendered /\ ~frame.panicked) =>
           /\ Len(FrameLines) = height
           /\ \A k \in 1..height : FrameLines[k] = EnabledCells(k, 1)

\* C9 as stated: a disabled column contributes nothing, and with a flexible
\* column present the enabled columns (their renderers honouring the width
\* contract) fill exactly the compositor width on every row.
C9_AsStated ==
    /\ DisabledContributesNothing
    /\ (Rendered /\ width > 0 /\ ~frame.panicked /\ Disabled # {}
        /\ EnabledFlexible # {} /\ RenderersHonourWidth) => LinesHaveWidth

\* C9, amended: the rows are filled exactly when, in addition, the enabled
\* fixed widths are non-negative and sum to less than the compositor width.
C9_DisabledColumnLeavesNoGap ==
    /\ DisabledContributesNothing
    /\ (Rendered /\ Disabled # {} /\ EnabledFlexible # {} /\ RenderersHonourWidth
        /\ LayoutFits) => LinesHaveWidth

C9_Witness ==
    /\ Rendered /\ ~frame.panicked /\ RenderersHonourWidth /\ LayoutFits
    /\ height >= 2 /\ width >= 2
    /\ EnabledFlexible # {}
    /\ \E i \in Disabled : columns[i].Width > 0 /\ columns[i].Renderer # "nil"

----------------------------------------------------------------------------
(* C10 *)

\* Row k of what the renderer of column i returns for its resolved width.
RendererRow(i, k) ==
    RendererRender(columns[i].Renderer, calculateColumnWidths(columns, width)[i],
                   height, frame.state).rows[k]

RECURSIVE ActiveCells(_, _)
ActiveCells(k, i) ==
    IF i > Len(columns) THEN <<>>
    ELSE (IF i \in Active THEN RendererRow(i, k) ELSE <<>>) \o ActiveCells(k, i + 1)

\* Every active column has a renderer that returned a row k.
HasRow(k) ==
    \A i \in Active : columns[i].Renderer # "nil" /\ Len(calls[i].raw) >= k

----------------------------------------------------------------------------
(* C11 *)

\* C11: the value FlexibleColumnWidth() returns before a Render equals the
\* width argument with which that Render invokes the renderer of every
\* enabled flexible column it invokes.
C11_FlexibleWidthIsRenderWidth ==
    [][(frame.op = "FlexibleColumnWidth" /\ frame'.op = "Render") =>
           \A i \in EnabledFlexible :
               calls'[i].called => calls'[i].width = frame.flex]_vars

----------------------------------------------------------------------------
(* C12 *)

\* C12: Render returns normally for every column configuration, width,
\* height and renderer row count; with no columns or height <= 0 it returns
\* the empty string; a column without a renderer is never invoked.
C12_RenderIsTotal ==
    frame.op = "Render" =>
        /\ ~frame.panicked
        /\ (Len(columns) = 0 \/ height <= 0) => frame.frame = <<>>
        /\ \A i \in 1..Len(calls) : columns[i].Renderer = "nil" => ~calls[i].called

----------------------------------------------------------------------------
(* Line-number gutter: src/unnamed/part_001 (LineNumberRenderer) *)

\* textWidth := 80, the wrap width the gutter assumes
TextWidthEstimate == 80

\* ColorToANSIFg(ui.LineNumber) and ColorToANSIFg(ui.LineNumberActive): a
\* terminal colour code, i.e. an escape sequence ending in 'm'.
ColorToANSIFg(role) ==
    IF role = "LineNumberActive" THEN <<ESC, "[", "9", "7", "m">>
    ELSE IF role = "LineNumber" THEN <<ESC, "[", "3", "7", "m">>
    ELSE IF role = "MinimapIndicator" THEN <<ESC, "[", "9", "3", "m">>
    ELSE <<ESC, "[", "9", "0", "m">>

\* resetCode := "\033[0m"
resetCode == <<ESC, "[", "0", "m">>

DigitRunes == <<"0", "1", "2", "3", "4", "5", "6", "7", "8", "9">>

RECURSIVE itoaDigits(_)
itoaDigits(n) ==
    IF n = 0 THEN <<>> ELSE Append(itoaDigits(n \div 10), DigitRunes[(n % 10) + 1])

itoaLocal(n) ==
    IF n = 0 THEN <<"0">>
    ELSE IF n < 0 THEN <<"-">> \o itoaDigits(-n)
    ELSE itoaDigits(n)

\* A numeral at least as long as the field is returned as it is.
padLeftStr(s, w) ==
    IF Len(s) >= w THEN s ELSE Repeat(SP, w - Len(s)) \o s

\* A wrap count that would round down instead of up.
countWrappedLinesForWidth_Floor(lineLen, textWidth) ==
    IF textWidth <= 0 THEN 1
    ELSE IF lineLen < textWidth THEN 1
    ELSE lineLen \div textWidth

countWrappedLinesForWidth(lineLen, textWidth) ==
    IF textWidth <= 0 THEN 1
    ELSE IF lineLen = 0 THEN 1
    ELSE (lineLen + textWidth - 1) \div textWidth

\* The row that shows the number of buffer line lineIdx (0-based).
numberRow(lineIdx, numWidth, st) ==
    ColorToANSIFg(IF lineIdx = st.CursorLine THEN "LineNumberActive" ELSE "LineNumber")
        \o padLeftStr(itoaLocal(lineIdx + 1), numWidth) \o resetCode \o <<SP>>

\* A no-wrap loop that would ignore the scroll offset and number the rows
\* from the first line of the document.
renderNoWrap_IgnoresScroll(w, numWidth, h, st) ==
    [row \in 1..h |->
        LET lineIdx == row - 1
        IN  IF lineIdx < Len(st.Lines) THEN numberRow(lineIdx, numWidth, st)
            ELSE Repeat(SP, w)]

renderNoWrap(w, numWidth, h, st) ==
    [row \in 1..h |->
        LET lineIdx == st.ScrollY + (row - 1)
        IN  IF lineIdx < Len(st.Lines) THEN numberRow(lineIdx, numWidth, st)
            ELSE Repeat(SP, w)]

\* The first loop of renderWrapped: the buffer line and the offset within it
\* at which visual line ScrollY starts, [bufferLine, wrapOffset].
RECURSIVE wrapSeek(_, _, _)
wrapSeek(st, visualLine, bufferLine) ==
    IF ~(bufferLine < Len(st.Lines) /\ visualLine < st.ScrollY)
    THEN [bufferLine |-> bufferLine, wrapOffset |-> 0]
    ELSE LET wrappedCount == countWrappedLinesForWidth(Len(st.Lines[bufferLine + 1]),
                                                       TextWidthEstimate)
         IN  IF visualLine + wrappedCount > st.ScrollY
             THEN [bufferLine |-> bufferLine, wrapOffset |-> st.ScrollY - visualLine]
             ELSE wrapSeek(st, visualLine + wrappedCount, bufferLine + 1)

\* The second loop of renderWrapped, from row (0-based) on.
RECURSIVE wrapRows(_, _, _, _, _, _, _)
wrapRows(w, numWidth, h, st, row, bufferLine, wrapOffset) ==
    IF row >= h THEN <<>>
    ELSE IF bufferLine >= Len(st.Lines)
    THEN <<Repeat(SP, w)>> \o wrapRows(w, numWidth, h, st, row + 1, bufferLine, wrapOffset)
    ELSE LET wrappedCount == countWrappedLinesForWidth(Len(st.Lines[bufferLine + 1]),
                                                       TextWidthEstimate)
             this == IF wrapOffset = 0 THEN numberRow(bufferLine, numWidth, st)
                     ELSE Repeat(SP, w)
             last == wrapOffset + 1 >= wrappedCount
         IN  <<this>> \o wrapRows(w, numWidth, h, st, row + 1,
                                  IF last THEN bufferLine + 1 ELSE bufferLine,
                                  IF last THEN 0 ELSE wrapOffset + 1)

renderWrapped(w, numWidth, h, st) ==
    LET at == wrapSeek(st, 0, 0)
    IN  wrapRows(w, numWidth, h, st, 0, at.bufferLine, at.wrapOffset)

\* LineNumberRenderer.Render.  make([]string, height) panics for a negative
\* height; a nil state is dereferenced once width and height are positive.
LineNumberRender(w, h, isNil, st) ==
    IF w <= 0 \/ h <= 0
    THEN IF h < 0 THEN [panicked |-> TRUE, rows |-> <<>>]
         ELSE [panicked |-> FALSE, rows |-> [row \in 1..h |-> <<>>]]
    ELSE IF isNil THEN [panicked |-> TRUE, rows |-> <<>>]
    ELSE [panicked |-> FALSE,
          rows |-> IF st.WordWrap THEN renderWrapped(w, w - 1, h, st)
                   ELSE renderNoWrap(w, w - 1, h, st)]

----------------------------------------------------------------------------
(* The gutter as a state machine: the calls made on one frame's snapshot *)

MaxLines == 2        \* most lines of an enumerated document
MaxScroll == 2       \* largest enumerated scroll offset
MaxGutterWidth == 3  \* largest width handed to the gutter
MaxUIHeight == 3     \* largest height handed to the gutter and the minimap

\* A line longer than the wrap width the gutter assumes: two visual lines.
LongLine == Repeat("#", TextWidthEstimate + 1)

\* A document long enough for two-digit line numbers.
LongDocument == [i \in 1..10 |-> <<>>]

GutterDocuments ==
    UNION {[1..n -> {<<>>, LongLine}] : n \in 0..MaxLines} \cup {LongDocument}

\* Snapshots the editor hands to the gutter: scrolled near the top or to the
\* last line, the cursor on one of the first lines.
GutterStates ==
    {[ZeroState EXCEPT !.Lines = d, !.TotalLines = Len(d), !.CursorLine = c,
                       !.ScrollY = y, !.WordWrap = ww] :
        d \in GutterDocuments, c \in 0..1, y \in 0..MaxScroll, ww \in BOOLEAN}
    \cup {[ZeroState EXCEPT !.Lines = d, !.TotalLines = Len(d),
                            !.ScrollY = Len(d) - 1, !.WordWrap = ww] :
             d \in GutterDocuments \ {<<>>}, ww \in BOOLEAN}

InitGutter ==
    /\ tin = <<>>
    /\ twidth = 0
    /\ tfn = "none"
    /\ tout = NoResult
    /\ columns = <<>>
    /\ width = 0
    /\ height = 0
    /\ frame = NoRet
    /\ calls = <<>>
    /\ rstate \in GutterStates
    /\ area = [width |-> 0, height |-> 0]
    /\ mmEnabled = FALSE
    /\ ret = NoUICall
    /\ ClipboardIdle

CallLineNumberRender ==
    \E w \in -1..MaxGutterWidth, h \in -1..MaxUIHeight, isNil \in BOOLEAN :
        LET r == LineNumberRender(w, h, isNil, rstate)
        IN  /\ ret' = [NoUICall EXCEPT !.op = "LineNumberRender", !.nilState = isNil,
                                       !.width = w, !.height = h,
                                       !.panicked = r.panicked, !.rows = r.rows]
            /\ UNCHANGED <<rstate, area, mmEnabled, textVars, compVars, clipVars>>

NextGutter ==
    \/ CallLineNumberRender

SpecGutter == InitGutter /\ [][NextGutter]_vars

----------------------------------------------------------------------------
(* C14 *)

GutterCalled ==
    /\ ret.op = "LineNumberRender"
    /\ ret.width > 0 /\ ret.height > 0 /\ ~ret.nilState

\* C14: for width > 0 (here with a numeral field of at least one cell),
\* height > 0 and any state, LineNumberRenderer.Render returns exactly height
\* rows, each of visual width exactly width, whatever the number of digits.
C14_GutterRowsHaveWidth ==
    (GutterCalled /\ ret.width >= 2) =>
        /\ ~ret.panicked
        /\ Len(ret.rows) = ret.height
        /\ \A k \in 1..Len(ret.rows) : visualWidth(ret.rows[k]) = ret.width

----------------------------------------------------------------------------
(* Minimap: src/unnamed/part_000:229-556 (MinimapRenderer) *)

TAB == "TAB"
BAR == "BAR"   \* U+2502, the viewport indicator

\* maxLineLen := 80, the least line length the horizontal scale assumes
DefaultMaxLineLen == 80

\* return 8 // 1 indicator + 6 braille + 1 space
MinimapWidth == 8

\* The rune 0x2800 | pattern.
BrailleRune(pattern) == "B" \o ToString(pattern)

\* A float64 quotient of two ints a / b (b > 0), raised to 1 when below 1.
\* It is kept as the pair of integers; the rounding of the quotient shows
\* only when it is multiplied, see mulTrunc.
ratioAtLeastOne(a, b) ==
    IF a < b THEN [num |-> 1, den |-> 1] ELSE [num |-> a, den |-> b]

\* The products <<k, a, b>> on which binary64 arithmetic falls short: a / b
\* rounds down, k times it rounds to the double just below the integer
\* k * a / b, and the conversion to int yields that integer less one
\* (11 * (15.0 / 11.0) = 14.999999999999998).  The list is complete for
\* numerators 1..24 and 80..83 with any smaller denominator; no product in
\* that range comes out too large.
RoundsBelow == {<<11, 15, 11>>, <<13, 15, 13>>, <<77, 80, 77>>}

\* int(float64(k) * q): the product in binary64, then truncation toward zero.
mulTrunc(k, q) ==
    LET exact == IF k >= 0 THEN (k * q.num) \div q.den ELSE -(((-k) * q.num) \div q.den)
    IN  IF <<k, q.num, q.den>> \in RoundsBelow THEN exact - 1 ELSE exact

\* A hasContentAt that would take any rune, blank or not, for content.
hasContentAt_AnyRune(lineRunes, start, end) ==
    LET s == IF start < 0 THEN 0 ELSE start
        e == IF end > Len(lineRunes) THEN Len(lineRunes) ELSE end
    IN  \E i \in s..(e - 1) : i < Len(lineRunes)

hasContentAt(lineRunes, start, end) ==
    LET s == IF start < 0 THEN 0 ELSE start
        e == IF end > Len(lineRunes) THEN Len(lineRunes) ELSE end
    IN  \E i \in s..(e - 1) :
            i < Len(lineRunes) /\ lineRunes[i + 1] # SP /\ lineRunes[i + 1] # TAB

\* The sampling loop of renderBrailleRow: every step-th line from i on, at
\* most four of them.
RECURSIVE sampleLoop(_, _, _, _, _)
sampleLoop(lines, i, endLine, step, sampleRunes) ==
    IF ~(i < endLine /\ Len(sampleRunes) < 4) THEN sampleRunes
    ELSE sampleLoop(lines, i + step, endLine, step,
                    IF i < Len(lines) THEN Append(sampleRunes, lines[i + 1])
                    ELSE sampleRunes)

\* Pad to 4 lines.
padSamples(sampleRunes) ==
    sampleRunes \o [k \in 1..(4 - Len(sampleRunes)) |-> <<>>]

\* pattern |= bit for the left and the right dot of sample row rowOffset+1
LeftBits == <<1, 2, 4, 64>>
RightBits == <<8, 16, 32, 128>>

\* The dots of one sample row, as the sum of their bits (each bit is or-ed
\* into the pattern at most once, so the sum is the or).
RECURSIVE dotBits(_, _, _, _, _)
dotBits(sampleRunes, srcColStart, srcColMid, srcColEnd, rowOffset) ==
    IF rowOffset >= 4 THEN 0
    ELSE (IF hasContentAt(sampleRunes[rowOffset + 1], srcColStart, srcColMid)
          THEN LeftBits[rowOffset + 1] ELSE 0)
         + (IF hasContentAt(sampleRunes[rowOffset + 1], srcColMid, srcColEnd)
            THEN RightBits[rowOffset + 1] ELSE 0)
         + dotBits(sampleRunes, srcColStart, srcColMid, srcColEnd, rowOffset + 1)

\* The source-column span of braille cell col (0-based).
srcSpan(col, w, maxLineLen) ==
    LET charsPerBraille == ratioAtLeastOne(maxLineLen, w)
        srcColStart == mulTrunc(col, charsPerBraille)
        srcColEnd == mulTrunc(col + 1, charsPerBraille)
    IN  [start |-> srcColStart, mid |-> (srcColStart + srcColEnd) \div 2,
         end |-> srcColEnd]

\* A sampling that would take the stride from the range before it is cut at
\* the end of the document.
sampledLines_StrideOfRange(lines, startLine, endLine) ==
    LET e == IF endLine > Len(lines) THEN Len(lines) ELSE endLine
        s == IF startLine < 0 THEN 0 ELSE startLine
        step == IF endLine - s < 4 THEN 1 ELSE (endLine - s) \div 4
    IN  padSamples(sampleLoop(lines, s, e, step, <<>>))

\* The four sampled lines of the braille row for [startLine, endLine).
sampledLines(lines, startLine, endLine) ==
    LET e == IF endLine > Len(lines) THEN Len(lines) ELSE endLine
        s == IF startLine < 0 THEN 0 ELSE startLine
        step == IF e - s < 4 THEN 1 ELSE (e - s) \div 4
    IN  padSamples(sampleLoop(lines, s, e, step, <<>>))

renderBrailleRow(lines, startLine, endLine, w, maxLineLen) ==
    IF Len(lines) = 0 \/ startLine >= Len(lines) THEN Repeat(SP, w)
    ELSE LET sampleRunes == sampledLines(lines, startLine, endLine)
         IN  [c \in 1..w |->
                 LET span == srcSpan(c - 1, w, maxLineLen)
                 IN  BrailleRune(dotBits(sampleRunes, span.start, span.mid, span.end, 0))]

\* The longest line of the document, at least DefaultMaxLineLen.
RECURSIVE maxLineLenOf(_, _, _)
maxLineLenOf(lines, i, maxLineLen) ==
    IF i > Len(lines) THEN maxLineLen
    ELSE maxLineLenOf(lines, i + 1,
                      IF Len(lines[i]) > maxLineLen THEN Len(lines[i]) ELSE maxLineLen)

\* The extent the rows are spread over: the visual-line count under word
\* wrap when it is known, else the buffer-line count; never 0.
minimapTotalLines(st) ==
    IF st.WordWrap /\ st.TotalVisualLines > 0 THEN st.TotalVisualLines
    ELSE IF st.TotalLines = 0 THEN 1
    ELSE st.TotalLines

\* The document range [start, end) of minimap row (0-based).
docRange(row, h, st) ==
    LET totalLines == minimapTotalLines(st)
        linesPerRow == ratioAtLeastOne(totalLines, h)
        docLineEnd == mulTrunc(row + 1, linesPerRow)
    IN  [start |-> mulTrunc(row, linesPerRow),
         end |-> IF docLineEnd > totalLines THEN totalLines ELSE docLineEnd]

\* A row whose viewport test would take the ranges as closed at both ends.
minimapRow_ClosedOverlap(row, w, h, st) ==
    LET brailleWidth == IF w - 2 < 1 THEN 1 ELSE w - 2
        visibleStart == st.ScrollY
        visibleEnd == st.ScrollY + h
        range == docRange(row, h, st)
        inViewport == range.start <= visibleEnd /\ range.end >= visibleStart
    IN  (IF inViewport
         THEN ColorToANSIFg("MinimapIndicator") \o <<BAR>> \o resetCode
         ELSE <<SP>>)
        \o ColorToANSIFg("MinimapText")
        \o renderBrailleRow(st.Lines, range.start, range.end, brailleWidth,
                            maxLineLenOf(st.Lines, 1, DefaultMaxLineLen))
        \o resetCode \o <<SP>>

minimapRow(row, w, h, st) ==
    LET brailleWidth == IF w - 2 < 1 THEN 1 ELSE w - 2
        visibleStart == st.ScrollY
        visibleEnd == st.ScrollY + h
        range == docRange(row, h, st)
        inViewport == range.start < visibleEnd /\ range.end > visibleStart
    IN  (IF inViewport
         THEN ColorToANSIFg("MinimapIndicator") \o <<BAR>> \o resetCode
         ELSE <<SP>>)
        \o ColorToANSIFg("MinimapText")
        \o renderBrailleRow(st.Lines, range.start, range.end, brailleWidth,
                            maxLineLenOf(st.Lines, 1, DefaultMaxLineLen))
        \o resetCode \o <<SP>>

\* MinimapRenderer.Render.  In the blank branch make([]string, height) panics
\* for a negative height and strings.Repeat(" ", width) for a negative width.
MinimapRender(en, w, h, isNil, st) ==
    IF ~en \/ w <= 0 \/ h <= 0 \/ isNil
    THEN IF h < 0 \/ (h > 0 /\ w < 0) THEN [panicked |-> TRUE, rows |-> <<>>]
         ELSE [panicked |-> FALSE, rows |-> [row \in 1..h |-> Repeat(SP, w)]]
    ELSE [panicked |-> FALSE, rows |-> [row \in 1..h |-> minimapRow(row - 1, w, h, st)]]

\* A GetMetrics that would always spread the rows over the buffer lines,
\* word wrap or not.
GetMetrics_BufferLines(h, st) ==
    LET totalLines == IF st.TotalLines = 0 THEN 1 ELSE st.TotalLines
    IN  [LinesPerRow |-> ratioAtLeastOne(totalLines, h), TotalLines |-> totalLines,
         Height |-> h]

\* MinimapRenderer.GetMetrics (height > 0, state not nil)
GetMetrics(h, st) ==
    LET totalLines == minimapTotalLines(st)
    IN  [LinesPerRow |-> ratioAtLeastOne(totalLines, h), TotalLines |-> totalLines,
         Height |-> h]

\* A RowToLine without the upper clamp.
RowToLine_NoUpperClamp(row, metrics) ==
    LET line == mulTrunc(row, metrics.LinesPerRow)
    IN  IF line < 0 THEN 0 ELSE line

\* A RowToLine that would spread the rows over [0, TotalLines-1] end to end.
RowToLine_EndToEnd(row, metrics) ==
    LET line == IF metrics.Height <= 1 THEN 0
                ELSE (row * (metrics.TotalLines - 1)) \div (metrics.Height - 1)
    IN  IF line < 0 THEN 0
        ELSE IF line >= metrics.TotalLines THEN metrics.TotalLines - 1
        ELSE line

\* MinimapRenderer.RowToLine
RowToLine(row, metrics) ==
    LET line == mulTrunc(row, metrics.LinesPerRow)
    IN  IF line < 0 THEN 0
        ELSE IF line >= metrics.TotalLines THEN metrics.TotalLines - 1
        ELSE line

----------------------------------------------------------------------------
(* The minimap as a state machine: the calls made on one frame's snapshot *)

MaxMinimapWidth == 3  \* largest enumerated minimap width below the standard one
MaxMinimapHeight == 2 \* largest height of the minimap column
MaxExtraVisual == 1   \* most visual lines that wrapping adds to a document

\* A line whose only content lies in the right half of an 80-column span.
HalfLine == Repeat(SP, 40) \o <<"#">>

\* A line that fills the default scale to its last column.
FullLine == Repeat("#", DefaultMaxLineLen)

\* Fifteen lines, the last one with content: at a height of eleven rows the
\* product 11 * (15.0 / 11.0) is one of RoundsBelow.
FifteenLines == [i \in 1..15 |-> IF i = 15 THEN <<"#">> ELSE <<>>]

\* Documents: every one of up to MaxLines lines that are empty or HalfLine,
\* one of a blank and a short line, one of a single long line, and one of
\* ten lines.
MinimapDocuments ==
    UNION {[1..n -> {<<>>, HalfLine}] : n \in 0..MaxLines}
    \cup {<<<<SP, TAB>>, <<"#">>>>, <<LongLine>>, LongDocument}

\* Snapshots the editor hands to the minimap.  The visual-line count is 0
\* (not computed) or, under word wrap, at least the buffer-line count.
MinimapStates ==
    {[ZeroState EXCEPT !.Lines = d, !.TotalLines = Len(d), !.ScrollY = y] :
        d \in MinimapDocuments, y \in 0..MaxScroll}
    \cup {[ZeroState EXCEPT !.Lines = d, !.TotalLines = Len(d), !.ScrollY = y,
                            !.WordWrap = TRUE,
                            !.TotalVisualLines = IF v < 0 THEN 0 ELSE Len(d) + v] :
             d \in MinimapDocuments, y \in 0..MaxScroll, v \in -1..MaxExtraVisual}

\* Widths: the small ones, the standard one, and one at which a braille cell
\* spans a single source column, so that its left half is empty.
MinimapWidths == -1..MaxMinimapWidth \cup {MinimapWidth, DefaultMaxLineLen + 2}
MinimapHeights == -1..MaxMinimapHeight
MinimapRowInputs == -1..(MaxMinimapHeight + 1) \cup {10}

\* Frames on which a product of RoundsBelow occurs: fifteen lines on eleven
\* rows, and a full line on 77 braille cells (77 * (80.0 / 77.0)).
RoundingStates ==
    {[ZeroState EXCEPT !.Lines = d, !.TotalLines = Len(d), !.ScrollY = y,
                       !.WordWrap = ww,
                       !.TotalVisualLines = IF ww THEN Len(d) ELSE 0] :
        d \in {FifteenLines, <<FullLine>>}, y \in 0..MaxScroll, ww \in BOOLEAN}
RoundingAreas ==
    {[width |-> MinimapWidth, height |-> 11],
     [width |-> DefaultMaxLineLen - 1, height |-> 1]}

\* A frame of one row over four lines that wrap to eight visual lines: the
\* range of the row reaches past the last buffer line.
WrappedStates ==
    {[ZeroState EXCEPT !.Lines = <<<<>>, <<"#">>, <<>>, <<>>>>, !.TotalLines = 4,
                       !.ScrollY = y, !.WordWrap = TRUE, !.TotalVisualLines = 8] :
        y \in 0..MaxScroll}
WrappedAreas == {[width |-> MinimapWidth, height |-> 1]}

\* One frame: the snapshot and the cell area of the minimap column are fixed.
InitMinimap ==
    /\ tin = <<>>
    /\ twidth = 0
    /\ tfn = "none"
    /\ tout = NoResult
    /\ columns = <<>>
    /\ width = 0
    /\ height = 0
    /\ frame = NoRet
    /\ calls = <<>>
    /\ \/ rstate \in MinimapStates /\ area \in [width : MinimapWidths, height : MinimapHeights]
       \/ rstate \in RoundingStates /\ area \in RoundingAreas
       \/ rstate \in WrappedStates /\ area \in WrappedAreas
    /\ mmEnabled = FALSE
    /\ ret = NoUICall
    /\ ClipboardIdle

SetEnabled ==
    \E en \in BOOLEAN :
        /\ mmEnabled' = en
        /\ ret' = NoUICall
        /\ UNCHANGED <<rstate, area, textVars, compVars, clipVars>>

Toggle ==
    /\ mmEnabled' = ~mmEnabled
    /\ ret' = [NoUICall EXCEPT !.op = "Toggle"]
    /\ UNCHANGED <<rstate, area, textVars, compVars, clipVars>>

CallMinimapRender ==
    \E isNil \in BOOLEAN :
        LET r == MinimapRender(mmEnabled, area.width, area.height, isNil, rstate)
        IN  /\ ret' = [NoUICall EXCEPT !.op = "MinimapRender", !.nilState = isNil,
                                       !.width = area.width, !.height = area.height,
                                       !.panicked = r.panicked, !.rows = r.rows]
            /\ UNCHANGED <<rstate, area, mmEnabled, textVars, compVars, clipVars>>

\* GetMetrics for the height of the column, when there is one.
CallGetMetrics ==
    /\ area.height > 0
    /\ ret' = [NoUICall EXCEPT !.op = "GetMetrics", !.height = area.height,
                               !.metrics = GetMetrics(area.height, rstate)]
    /\ UNCHANGED <<rstate, area, mmEnabled, textVars, compVars, clipVars>>

\* A pointer row is translated with the metrics obtained for this frame.
CallRowToLine ==
    \E row \in MinimapRowInputs :
        /\ ret.op \in {"GetMetrics", "RowToLine"}
        /\ ret' = [ret EXCEPT !.op = "RowToLine", !.row = row,
                              !.line = RowToLine(row, ret.metrics)]
        /\ UNCHANGED <<rstate, area, mmEnabled, textVars, compVars, clipVars>>

NextMinimap ==
    \/ SetEnabled
    \/ Toggle
    \/ CallMinimapRender
    \/ CallGetMetrics
    \/ CallRowToLine

SpecMinimap == InitMinimap /\ [][NextMinimap]_vars

----------------------------------------------------------------------------
(* C15 *)

MinimapDrawn ==
    /\ ret.op = "MinimapRender"
    /\ mmEnabled /\ ret.width > 0 /\ ret.height > 0 /\ ~ret.nilState

\* The cell of an indicator: a bare blank, or the coloured bar.
IsIndicator(s) ==
    s = <<SP>> \/ s = ColorToANSIFg("MinimapIndicator") \o <<BAR>> \o resetCode

BrailleRunes == {BrailleRune(p) : p \in 0..255}

IsBrailleCell(r) == r = SP \/ r \in BrailleRunes

\* s is one indicator cell, n braille-or-blank cells in the text colour, and
\* one trailing space.
IsMinimapRow(s, n) ==
    \E k \in {1, Len(ColorToANSIFg("MinimapIndicator")) + 1 + Len(resetCode)} :
        LET c == Len(ColorToANSIFg("MinimapText"))
        IN  /\ Len(s) = k + c + n + Len(resetCode) + 1
            /\ IsIndicator(SubSeq(s, 1, k))
            /\ SubSeq(s, k + 1, k + c) = ColorToANSIFg("MinimapText")
            /\ \A j \in (k + c + 1)..(k + c + n) : IsBrailleCell(s[j])
            /\ SubSeq(s, k + c + n + 1, Len(s)) = resetCode \o <<SP>>

\* C15: for width > 0 (here width >= 2, so that width-2 cells exist), height
\* > 0, the minimap enabled and a state, Render returns exactly height rows,
\* each one indicator cell, width-2 braille or blank cells and one trailing
\* space, of visual width exactly width.
C15_MinimapRowLayout ==
    (MinimapDrawn /\ ret.width >= 2) =>
        /\ ~ret.panicked
        /\ Len(ret.rows) = ret.height
        /\ \A k \in 1..Len(ret.rows) :
               /\ IsMinimapRow(ret.rows[k], ret.width - 2)
               /\ visualWidth(ret.rows[k]) = ret.width

----------------------------------------------------------------------------
(* C16 *)

\* C16: when the minimap is disabled, or the width or the height is zero or
\* negative, Render does not fail and every row it returns consists only of
\* spaces, as many as the requested width.
C16_BlankWhenOffOrDegenerate ==
    (ret.op = "MinimapRender" /\ (~mmEnabled \/ ret.width <= 0 \/ ret.height <= 0)) =>
        /\ ~ret.panicked
        /\ \A k \in 1..Len(ret.rows) : ret.rows[k] = Repeat(SP, ret.width)

----------------------------------------------------------------------------
(* C17 *)

MappedRow == ret.op = "RowToLine"
Extent == ret.metrics.TotalLines
LastRow == ret.metrics.Height - 1

\* C17 as stated: with the metrics of GetMetrics(height, state), height > 0,
\* RowToLine(0) is 0 and RowToLine(height-1) is extent-1 (the last row taken
\* only where it is not also row 0).
C17_AsStated ==
    MappedRow =>
        /\ ret.row = 0 => ret.line = 0
        /\ (ret.row = LastRow /\ ret.metrics.Height >= 2) => ret.line = Extent - 1

\* C17: RowToLine(0) is 0; RowToLine(height-1) is extent-1 when the extent is
\* at most the height, and otherwise the first line of the range of the last
\* minimap row, which lies before extent-1.
C17_BoundaryRows ==
    MappedRow =>
        /\ ret.row = 0 => ret.line = 0
        /\ (ret.row = LastRow /\ Extent <= ret.metrics.Height) => ret.line = Extent - 1
        /\ (ret.row = LastRow /\ Extent > ret.metrics.Height) =>
               /\ ret.line = docRange(LastRow, ret.metrics.Height, rstate).start
               /\ ret.line < Extent - 1

C17_Witness ==
    /\ MappedRow /\ ret.row = LastRow
    /\ ret.metrics.Height >= 2 /\ Extent > ret.metrics.Height
    /\ ret.line > 0

----------------------------------------------------------------------------
(* C18 *)

\* C18: for every integer row and the metrics of GetMetrics(height, state),
\* height > 0, RowToLine returns a line in [0, extent-1].
C18_RowToLineInRange ==
    MappedRow => (0 <= ret.line /\ ret.line <= Extent - 1)

\* A row below the column is mapped, and its unclamped line lies past the end.
C18_Witness ==
    /\ MappedRow
    /\ ret.row > LastRow
    /\ mulTrunc(ret.row, ret.metrics.LinesPerRow) >= Extent
    /\ Extent >= 2

----------------------------------------------------------------------------
(* C19 *)

\* The pattern of a braille rune.
PatternOf == [r \in BrailleRunes |-> CHOOSE p \in 0..255 : BrailleRune(p) = r]

\* Dot `bit` is set in cell r; a blank cell has no dots.
DotSet(r, bit) == r \in BrailleRunes /\ (PatternOf[r] \div bit) % 2 = 1

\* The line has a character other than space and tab at an index (0-based)
\* of [from, to).
HasInk(line, from, to) ==
    \E i \in 1..Len(line) : from <= i - 1 /\ i - 1 < to /\ line[i] \notin {SP, TAB}

\* The n cells of minimap row s between the text colour and the reset.
BrailleCells(s, n) ==
    SubSeq(s, Len(s) - Len(resetCode) - n, Len(s) - Len(resetCode) - 1)

\* The four sampled lines of minimap row k (1-based): lines the document
\* does not have are empty.
SamplesOfRow(k) ==
    LET range == docRange(k - 1, ret.height, rstate)
    IN  IF Len(rstate.Lines) = 0 \/ range.start >= Len(rstate.Lines)
        THEN <<<<>>, <<>>, <<>>, <<>>>>
        ELSE sampledLines(rstate.Lines, range.start, range.end)

SpanOfCell(c) ==
    srcSpan(c - 1, ret.width - 2, maxLineLenOf(rstate.Lines, 1, DefaultMaxLineLen))

----------------------------------------------------------------------------
(* Clipboard: src/clipboard/clipboard.go *)

\* The detected tool: none, or one of xclip, xsel and wl-clipboard, which
\* differ only in the command that is run.
ClipboardTools == {"ToolNone", "ToolXclip"}

\* copyNative: without a tool an error; with one the command may fail, and
\* when it succeeds the system clipboard holds the text.
copyNative(c, sys, text, nativeOk) ==
    IF c.tool = "ToolNone" \/ ~nativeOk THEN [err |-> TRUE, sys |-> sys]
    ELSE [err |-> FALSE, sys |-> text]

\* copyOSC52: the error is that of the write to the output.
copyOSC52(text, oscOk) == ~oscOk

\* A Copy that would store the text only when the copy was delivered.
Copy_StoresOnSuccess(c, sys, text, nativeOk, oscOk) ==
    LET native == copyNative(c, sys, text, nativeOk)
        err == IF c.isSSH THEN copyOSC52(text, oscOk)
               ELSE native.err /\ copyOSC52(text, oscOk)
    IN  [clip |-> IF err THEN c ELSE [c EXCEPT !.internal = text],
         sys |-> IF c.isSSH THEN sys ELSE native.sys,
         err |-> err]

\* Clipboard.Copy
Copy(c, sys, text, nativeOk, oscOk) ==
    LET stored == [c EXCEPT !.internal = text]
        native == copyNative(stored, sys, text, nativeOk)
    IN  IF stored.isSSH
        THEN [clip |-> stored, sys |-> sys, err |-> copyOSC52(text, oscOk)]
        ELSE IF ~native.err THEN [clip |-> stored, sys |-> native.sys, err |-> FALSE]
        ELSE [clip |-> stored, sys |-> sys, err |-> copyOSC52(text, oscOk)]

\* pasteNative: without a tool an error; with one the command may fail.
pasteNative(c, sys, nativeOk) ==
    IF c.tool = "ToolNone" \/ ~nativeOk THEN [err |-> TRUE, text |-> <<>>]
    ELSE [err |-> FALSE, text |-> sys]

\* Clipboard.Paste: the error is always nil.
Paste(c, sys, nativeOk) ==
    LET native == pasteNative(c, sys, nativeOk)
    IN  IF ~native.err /\ native.text # <<>> THEN native.text ELSE c.internal

\* Clipboard.HasContent
HasContent(c, sys, nativeOk) ==
    LET native == pasteNative(c, sys, nativeOk)
    IN  IF ~native.err /\ native.text # <<>> THEN TRUE ELSE c.internal # <<>>

\* Clipboard.Clear
Clear(c) == [c EXCEPT !.internal = <<>>]

ClipTexts == {<<>>, <<"#">>, <<"L", "T">>}

\* clipboard.New: the session and the tool are what the environment gives.
InitClipboard ==
    /\ tin = <<>>
    /\ twidth = 0
    /\ tfn = "none"
    /\ tout = NoResult
    /\ columns = <<>>
    /\ width = 0
    /\ height = 0
    /\ frame = NoRet
    /\ calls = <<>>
    /\ UIIdle
    /\ clip \in [internal : {<<>>}, isSSH : BOOLEAN, tool : ClipboardTools]
    /\ sysclip \in ClipTexts
    /\ cret = NoClipCall

CallCopy ==
    \E text \in ClipTexts, nativeOk \in BOOLEAN, oscOk \in BOOLEAN :
        LET r == Copy(clip, sysclip, text, nativeOk, oscOk)
        IN  /\ clip' = r.clip
            /\ sysclip' = r.sys
            /\ cret' = [NoClipCall EXCEPT !.op = "Copy", !.text = text, !.err = r.err]
            /\ UNCHANGED <<textVars, compVars, uiVars>>

CallPaste ==
    \E nativeOk \in BOOLEAN :
        /\ cret' = [NoClipCall EXCEPT !.op = "Paste",
                                     !.text = Paste(clip, sysclip, nativeOk)]
        /\ UNCHANGED <<clip, sysclip, textVars, compVars, uiVars>>

CallHasContent ==
    \E nativeOk \in BOOLEAN :
        /\ cret' = [NoClipCall EXCEPT !.op = "HasContent",
                                     !.has = HasContent(clip, sysclip, nativeOk)]
        /\ UNCHANGED <<clip, sysclip, textVars, compVars, uiVars>>

CallClear ==
    /\ clip' = Clear(clip)
    /\ cret' = [NoClipCall EXCEPT !.op = "Clear"]
    /\ UNCHANGED <<sysclip, textVars, compVars, uiVars>>

\* Another application puts a text on the system clipboard.
ExternalCopy ==
    \E text \in ClipTexts :
        /\ clip.tool # "ToolNone"
        /\ sysclip' = text
        /\ UNCHANGED <<clip, cret, textVars, compVars, uiVars>>

NextClipboard ==
    \/ CallCopy
    \/ CallPaste
    \/ CallHasContent
    \/ CallClear
    \/ ExternalCopy

SpecClipboard == InitClipboard /\ [][NextClipboard]_vars

----------------------------------------------------------------------------
(* C20 *)

\* C20: without a native tool, every Copy leaves its text in the internal
\* buffer whether or not the OSC52 write succeeded, Clear empties the buffer,
\* and Paste and HasContent change nothing: Paste returns the buffer, that
\* is the text of the most recent Copy, or the empty string after Clear, and
\* HasContent is true iff the buffer is not empty.
C20_InternalCopyPaste ==
    [][clip.tool = "ToolNone" =>
           /\ cret'.op = "Copy" => clip'.internal = cret'.text
           /\ cret'.op = "Clear" => clip'.internal = <<>>
           /\ cret'.op = "Paste" =>
                  (cret'.text = clip.internal /\ ~cret'.err /\ clip' = clip)
           /\ cret'.op = "HasContent" =>
                  (cret'.has = (clip.internal # <<>>) /\ clip' = clip)]_vars

\* Without a tool, Paste has returned a text that is not empty.
C20_Witness ==
    /\ clip.tool = "ToolNone"
    /\ cret.op = "Paste"
    /\ cret.text # <<>>

----------------------------------------------------------------------------
(* One render pass: the compositor and the two renderers on one snapshot *)

\* Snapshots of a two-line document, unwrapped and wrapped, and of none.
PassStates ==
    {st \in MinimapStates :
        /\ st.Lines \in {<<>>, <<<<SP, TAB>>, <<"#">>>>}
        /\ st.ScrollY <= 1}

\* The configuration is what the editor set up before the pass.
InitPass ==
    /\ tin = <<>>
    /\ twidth = 0
    /\ tfn = "none"
    /\ tout = NoResult
    /\ columns \in RenderColumnLists
    /\ width = MaxWidth
    /\ height \in {0, MaxHeight}
    /\ frame = NoRet
    /\ calls = <<>>
    /\ rstate \in PassStates
    /\ area = [width |-> MinimapWidth, height |-> MaxMinimapHeight]
    /\ mmEnabled \in BOOLEAN
    /\ ret = NoUICall
    /\ ClipboardIdle

NextPass ==
    \/ CallRender
    \/ CallFlexibleColumnWidth
    \/ CallLineNumberRender
    \/ CallMinimapRender
    \/ CallGetMetrics
    \/ CallRowToLine

SpecPass == InitPass /\ [][NextPass]_vars

----------------------------------------------------------------------------
(* C13 *)

\* The compositor call of the step repeats the one before it.
SameCompositorCall ==
    frame.op # "none" /\ frame'.op = frame.op /\ frame'.state = frame.state

\* The renderer call of the step repeats the one before it.
SameRendererCall ==
    /\ ret.op # "none" /\ ret'.op = ret.op
    /\ ret'.width = ret.width /\ ret'.height = ret.height
    /\ ret'.nilState = ret.nilState
    /\ ret'.row = ret.row /\ ret'.metrics = ret.metrics

\* C13: Compositor.Render, FlexibleColumnWidth, LineNumberRenderer.Render,
\* MinimapRenderer.Render, GetMetrics and RowToLine leave the RenderState,
\* the compositor's columns, width and height and the minimap's enabled flag
\* unchanged, and a call repeated on the same configuration and state
\* returns what it returned before.
C13_RenderPassIsPure ==
    [][/\ UNCHANGED <<rstate, columns, width, height, mmEnabled>>
       /\ SameCompositorCall => (frame' = frame /\ calls' = calls)
       /\ SameRendererCall => ret' = ret]_vars

\* A frame has been composited and the minimap drawn on a document.
C13_Witness ==
    /\ frame.op = "Render" /\ ~frame.panicked /\ frame.frame # <<>>
    /\ ret.op = "MinimapRender" /\ mmEnabled /\ ~ret.nilState
    /\ rstate.Lines # <<>>

----------------------------------------------------------------------------
(* C21 *)

LastFlexible == CHOOSE i \in EnabledFlexible : \A j \in EnabledFlexible : j <= i
EarlierFlexible == EnabledFlexible \ {LastFlexible}

\* Row k of the frame as the columns other than the earlier flexible ones
\* produce it.
RECURSIVE OtherCells(_, _)
OtherCells(k, i) ==
    IF i > Len(columns) THEN <<>>
    ELSE (IF columns[i].Enabled /\ i \notin EarlierFlexible THEN calls[i].out[k] ELSE <<>>)
         \o OtherCells(k, i + 1)

\* C21: with two or more enabled flexible columns the last one in column
\* order receives the whole remainder max(1, width - sum of the enabled fixed
\* widths); every earlier enabled flexible column resolves to width 0, its
\* renderer is not invoked by Render, and it contributes no cell to any row
\* of the frame.
C21_LastFlexibleWins ==
    Cardinality(EnabledFlexible) >= 2 =>
        /\ frame.op = "calculateColumnWidths" =>
               /\ frame.widths[LastFlexible] = Max(1, width - FixedSum)
               /\ \A i \in EarlierFlexible : frame.widths[i] = 0
        /\ (Rendered /\ ~frame.panicked) =>
               /\ calls[LastFlexible].called => calls[LastFlexible].width = Max(1, width - FixedSum)
               /\ columns[LastFlexible].Renderer # "nil" /\ height > 0
                      => calls[LastFlexible].called
               /\ \A i \in EarlierFlexible : ~calls[i].called
               /\ \A k \in 1..height : FrameLines[k] = OtherCells(k, 1)

C21_Witness ==
    /\ Rendered
    /\ ~frame.panicked
    /\ Cardinality(EnabledFlexible) >= 2
    /\ calls[LastFlexible].called
    /\ calls[LastFlexible].width = width
    /\ width >= 2
    /\ frame.frame # <<>>

----------------------------------------------------------------------------
(* C22 *)

\* A gutter row that shows line number n in colour role `role`: the numeral
\* right-justified in a field of `field` cells, then one separator space.
NumeralRow(n, field, role) ==
    ColorToANSIFg(role) \o Repeat(SP, Max(0, field - Len(itoaLocal(n)))) \o itoaLocal(n)
        \o resetCode \o <<SP>>

BlankRow(w) == Repeat(SP, w)

NoWrapDrawn == GutterCalled /\ ~rstate.WordWrap

----------------------------------------------------------------------------
(* C23 *)

\* max(1, ceil(n / tw)) for tw > 0, as the least k with k * tw >= n.
VisualRowsOf(n, tw) ==
    Max(1, CHOOSE k \in 0..n : k * tw >= n /\ \A j \in 0..(k - 1) : j * tw < n)

\* The visual row, counted from the start of the document, on which buffer
\* line i (0-based) begins when every line wraps at tw cells.
RECURSIVE FirstVisualRow(_, _, _)
FirstVisualRow(lines, i, tw) ==
    IF i = 0 THEN 0
    ELSE FirstVisualRow(lines, i - 1, tw) + VisualRowsOf(Len(lines[i]), tw)

WrapDrawn == GutterCalled /\ rstate.WordWrap

\* The buffer lines that begin on visual row v.
LinesStartingAt(v) ==
    {i \in 0..(Len(rstate.Lines) - 1) :
        FirstVisualRow(rstate.Lines, i, TextWidthEstimate) = v}

\* C23: with word wrap, each buffer line taking max(1, ceil(length / textWidth))
\* visual rows from the start of the document, gutter row r shows a numeral
\* iff visual row ScrollY + r is the first visual row of a buffer line, and
\* the numeral is that line's 1-based number; continuation rows and rows past
\* the end are blank.
C23_WrapRows ==
    WrapDrawn =>
        \A r \in 0..(ret.height - 1) :
            LET starts == LinesStartingAt(rstate.ScrollY + r)
            IN  /\ Cardinality(starts) <= 1
                /\ \A i \in starts :
                       ret.rows[r + 1] =
                           NumeralRow(i + 1, ret.width - 1,
                                      IF i = rstate.CursorLine THEN "LineNumberActive"
                                      ELSE "LineNumber")
                /\ starts = {} => ret.rows[r + 1] = BlankRow(ret.width)

\* A frame that begins on a continuation row, then shows the numeral of the
\* next line, and ends past the document.
C23_Witness ==
    /\ WrapDrawn
    /\ ret.height >= 3
    /\ ret.width >= 3
    /\ rstate.ScrollY >= 1
    /\ LinesStartingAt(rstate.ScrollY) = {}
    /\ LinesStartingAt(rstate.ScrollY + 1) = {1}
    /\ ret.rows[2] # BlankRow(ret.width)
    /\ ret.rows[3] = BlankRow(ret.width)

----------------------------------------------------------------------------
(* C24 *)

\* The buffer lines that begin on visual row v when the text wraps at tw cells.
LinesStartingAtWidth(v, tw) ==
    {i \in 0..(Len(rstate.Lines) - 1) : FirstVisualRow(rstate.Lines, i, tw) = v}

\* C24: in word-wrap mode the gutter counts the visual rows of a line with the
\* flexible-column width the Compositor resolved (what FlexibleColumnWidth
\* returned for the layout of this frame), so that a numeral stands exactly on
\* each row where a buffer line begins in the text wrapped at that width.
C24_WrapUsesFlexibleWidth ==
    (WrapDrawn /\ frame.op = "FlexibleColumnWidth" /\ frame.flex > 0) =>
        \A r \in 0..(ret.height - 1) :
            LET starts == LinesStartingAtWidth(rstate.ScrollY + r, frame.flex)
            IN  /\ \A i \in starts :
                       ret.rows[r + 1] =
                           NumeralRow(i + 1, ret.width - 1,
                                      IF i = rstate.CursorLine THEN "LineNumberActive"
                                      ELSE "LineNumber")
                /\ starts = {} => ret.rows[r + 1] = BlankRow(ret.width)

----------------------------------------------------------------------------
(* C25 *)

\* The snapshot's counts mean what they say: under word wrap the visual-line
\* count is the line count after wrap expansion, so not below the line count.
WellCounted == rstate.WordWrap => rstate.TotalVisualLines >= rstate.TotalLines

\* The extent as the claim defines it.
StatedExtent ==
    Max(1, IF rstate.WordWrap THEN rstate.TotalVisualLines ELSE rstate.TotalLines)

\* floor(k * max(1, a / b)) in exact arithmetic.
FloorOfScaled(k, a, b) == IF a < b THEN k ELSE (k * a) \div b

\* [floor(r * linesPerRow), floor((r + 1) * linesPerRow)) clipped to
\* [0, extent), for row r (0-based) of h rows.
StatedRange(r, h) ==
    [start |-> FloorOfScaled(r, StatedExtent, h),
     end |-> IF FloorOfScaled(r + 1, StatedExtent, h) > StatedExtent THEN StatedExtent
             ELSE FloorOfScaled(r + 1, StatedExtent, h)]

\* C25: with extent = the visual-line count under word wrap, else the
\* buffer-line count (at least 1), and linesPerRow = max(1, extent / height),
\* the braille cells of every minimap row r in 0..height-1 are those drawn
\* from the document range [floor(r * linesPerRow), floor((r+1) * linesPerRow))
\* clipped to [0, extent).
C25_RowsDrawnFromStatedRange ==
    (MinimapDrawn /\ ret.width >= 3 /\ WellCounted) =>
        \A r \in 0..(ret.height - 1) :
            BrailleCells(ret.rows[r + 1], ret.width - 2) =
                renderBrailleRow(rstate.Lines, StatedRange(r, ret.height).start,
                                 StatedRange(r, ret.height).end, ret.width - 2,
                                 maxLineLenOf(rstate.Lines, 1, DefaultMaxLineLen))

----------------------------------------------------------------------------
(* C26 *)

\* The indicator cell of minimap row s: what precedes the text colour.
IndicatorCell(s, n) ==
    SubSeq(s, 1, Len(s) - Len(resetCode) - 1 - n - Len(ColorToANSIFg("MinimapText")))

IndicatorGlyph == ColorToANSIFg("MinimapIndicator") \o <<BAR>> \o resetCode

\* The range of row r (0-based) overlaps the visible lines
\* [ScrollY, ScrollY + height).
InView(r) ==
    LET range == docRange(r, ret.height, rstate)
    IN  range.start < rstate.ScrollY + ret.height /\ range.end > rstate.ScrollY

\* C26: a minimap row shows the indicator glyph iff the document range
\* [rangeStart, rangeEnd) the row is mapped to satisfies
\* rangeStart < ScrollY + height and rangeEnd > ScrollY; every other row has
\* a blank cell in the indicator position.
C26_IndicatorIffInView ==
    MinimapDrawn =>
        \A r \in 0..(ret.height - 1) :
            LET cell == IndicatorCell(ret.rows[r + 1], Max(1, ret.width - 2))
            IN  /\ InView(r) => cell = IndicatorGlyph
                /\ ~InView(r) => cell = <<SP>>

\* A frame with a row in view and a row out of view, the latter touching the
\* visible range at its end.
C26_Witness ==
    /\ MinimapDrawn /\ ret.height >= 2
    /\ \E r \in 0..(ret.height - 1) : InView(r)
    /\ \E r \in 0..(ret.height - 1) :
           /\ ~InView(r)
           /\ docRange(r, ret.height, rstate).end = rstate.ScrollY
           /\ docRange(r, ret.height, rstate).start < rstate.ScrollY

----------------------------------------------------------------------------
(* C27 *)

\* The rune length of the longest line of the document, 0 without lines.
LongestLine == Max(0, CHOOSE n \in {0} \cup {Len(rstate.Lines[i]) : i \in 1..Len(rstate.Lines)} :
                          \A i \in 1..Len(rstate.Lines) : Len(rstate.Lines[i]) <= n)

\* The source columns of glyph column c (0-based) of bw as the claim gives
\* them: [floor(c * cpb), floor((c + 1) * cpb)) with
\* cpb = max(1, LongestLine / bw), bisected at the midpoint.
StatedSpan(c, bw) ==
    LET start == FloorOfScaled(c, LongestLine, bw)
        end == FloorOfScaled(c + 1, LongestLine, bw)
    IN  [start |-> start, mid |-> (start + end) \div 2, end |-> end]

\* C27: the horizontal scale is one per frame, charsPerBraille =
\* max(1, maxLineLength / brailleBodyWidth) with maxLineLength the rune
\* length of the longest document line; in every row, glyph column c shows
\* in its left dots the content of source columns
\* [floor(c * cpb), midpoint) and in its right dots that of
\* [midpoint, floor((c + 1) * cpb)).
C27_StatedHorizontalScale ==
    (MinimapDrawn /\ ret.width >= 3) =>
        \A k \in 1..ret.height, c \in 1..(ret.width - 2), j \in 1..4 :
            LET cell == BrailleCells(ret.rows[k], ret.width - 2)[c]
                line == SamplesOfRow(k)[j]
                span == StatedSpan(c - 1, ret.width - 2)
            IN  /\ DotSet(cell, LeftBits[j]) <=> HasInk(line, span.start, span.mid)
                /\ DotSet(cell, RightBits[j]) <=> HasInk(line, span.mid, span.end)

----------------------------------------------------------------------------
(* C28 *)

\* The j-th (1-based) of the lines first, first + s, first + 2s, first + 3s
\* that lie below `last` and inside the document; an empty line when there
\* is none.
StridedSample(j, first, last, s) ==
    LET i == first + (j - 1) * s
    IN  IF 0 <= i /\ i < last /\ i < Len(rstate.Lines) THEN rstate.Lines[i + 1] ELSE <<>>

\* The dots of every cell of minimap row k show the given four lines.
RowShows(k, samples) ==
    \A c \in 1..(ret.width - 2), j \in 1..4 :
        LET cell == BrailleCells(ret.rows[k], ret.width - 2)[c]
            span == SpanOfCell(c)
        IN  /\ DotSet(cell, LeftBits[j]) <=> HasInk(samples[j], span.start, span.mid)
            /\ DotSet(cell, RightBits[j]) <=> HasInk(samples[j], span.mid, span.end)

\* C28 as stated: the four dot-rows of a minimap row with range
\* [rangeStart, rangeEnd) show the lines rangeStart + j * s, j = 0..3, with
\* s = max(1, (rangeEnd - rangeStart) / 4), those below rangeEnd and inside
\* the document; missing samples are empty.
C28_AsStated ==
    (MinimapDrawn /\ ret.width >= 3) =>
        \A k \in 1..ret.height :
            LET range == docRange(k - 1, ret.height, rstate)
                s == Max(1, (range.end - range.start) \div 4)
            IN  RowShows(k, [j \in 1..4 |-> StridedSample(j, range.start, range.end, s)])

\* C28: the same with the range first cut at the end of the document: the
\* stride is s = max(1, (min(rangeEnd, line count) - rangeStart) / 4), and
\* the lines shown are rangeStart + j * s below min(rangeEnd, line count).
C28_StrideOfClippedRange ==
    (MinimapDrawn /\ ret.width >= 3) =>
        \A k \in 1..ret.height :
            LET range == docRange(k - 1, ret.height, rstate)
                last == IF range.end > Len(rstate.Lines) THEN Len(rstate.Lines)
                        ELSE range.end
                s == IF last - range.start < 4 THEN 1 ELSE (last - range.start) \div 4
            IN  RowShows(k, [j \in 1..4 |-> StridedSample(j, range.start, last, s)])

\* A row whose range reaches past the document by enough to change the
\* stride, drawn with a dot for a line the wider stride would skip.
C28_Witness ==
    /\ MinimapDrawn /\ ret.width >= 3
    /\ \E k \in 1..ret.height :
           LET range == docRange(k - 1, ret.height, rstate)
           IN  /\ range.end > Len(rstate.Lines)
               /\ (range.end - range.start) \div 4 > Max(1, (Len(rstate.Lines) - range.start) \div 4)
               /\ DotSet(BrailleCells(ret.rows[k], ret.width - 2)[1], LeftBits[2])

----------------------------------------------------------------------------
(* C29 *)

\* The range Render assigns to the row that was mapped, for the height and
\* the state the metrics were taken for.
RangeOfMappedRow == docRange(ret.row, ret.metrics.Height, rstate)

----------------------------------------------------------------------------
(* C30 *)

\* The range Render assigns to row r (0-based) of the frame that was drawn.
RangeOfRow(r) == docRange(r, ret.height, rstate)

\* C30: when extent >= height > 0, the ranges of the rows 0..height-1 are
\* non-empty and contiguous (the end of row r is the start of row r+1, so
\* they are pairwise disjoint), start at 0 and end at the extent: every line
\* index of [0, extent) lies in the range of exactly one row.
C30_RangesPartitionExtent ==
    (MinimapDrawn /\ minimapTotalLines(rstate) >= ret.height) =>
        /\ RangeOfRow(0).start = 0
        /\ \A r \in 0..(ret.height - 1) : RangeOfRow(r).start < RangeOfRow(r).end
        /\ \A r \in 0..(ret.height - 2) : RangeOfRow(r).end = RangeOfRow(r + 1).start
        /\ RangeOfRow(ret.height - 1).end = minimapTotalLines(rstate)
        /\ \A i \in 0..(minimapTotalLines(rstate) - 1) :
               Cardinality({r \in 0..(ret.height - 1) :
                               RangeOfRow(r).start <= i /\ i < RangeOfRow(r).end}) = 1

====
